---- MODULE Spec2Model ----
(***************************************************************************)
(* clnurl: an LNURL-pay front end for a Core Lightning node (src/main.rs). *)
(* Two HTTP handlers, get_lnurl_struct and get_invoice, share a read-only  *)
(* ClnurlState.  Every invoice request opens its own RPC connection to the *)
(* node, sends one invoice request and maps the answer to the response.    *)
(*                                                                         *)
(* Text is modelled as sequences of one-token strings, u64 values as four  *)
(* 16-bit limbs (most significant first), Option<T> as <<>> or <<v>>.      *)
(***************************************************************************)
EXTENDS Integers, Sequences, FiniteSets, TLC

VARIABLES
    state,      \* ClnurlState, built once in main
    alive,      \* the serving process is running
    req,        \* req[r]: the HTTP request r as received (route, query)
    pc,         \* pc[r]: where handler r stands
    client,     \* client[r]: cln_client of get_invoice r, its connection
    ret,        \* ret[r]: what handler r returned
    exit,       \* exit[r]: the exit handler r left through
    calls,      \* calls[r]: invoice requests handler r has sent to the node
    codec       \* the amount codec exercised on its own (SpecCodec)

vars == <<state, alive, req, pc, client, ret, exit, calls, codec>>

(***************************************************************************)
(* Bounds                                                                  *)
(***************************************************************************)
MaxReq == 2

Requests == 1..MaxReq

(***************************************************************************)
(* u64 arithmetic on limbs                                                 *)
(***************************************************************************)
LimbBase == 2^16

U64Zero == <<0, 0, 0, 0>>

U64Max == <<LimbBase - 1, LimbBase - 1, LimbBase - 1, LimbBase - 1>>

Digits == <<"0", "1", "2", "3", "4", "5", "6", "7", "8", "9">>

IsDigit(c) == \E i \in 1..10 : Digits[i] = c

DigitVal(c) == (CHOOSE i \in 1..10 : Digits[i] = c) - 1

\* v * 10 + d in 64 bits, with the carry out of the top limb
U64MulAdd10(v, d) ==
    LET t4 == v[4] * 10 + d
        t3 == v[3] * 10 + (t4 \div LimbBase)
        t2 == v[2] * 10 + (t3 \div LimbBase)
        t1 == v[1] * 10 + (t2 \div LimbBase)
    IN  [val |-> <<t1 % LimbBase, t2 % LimbBase, t3 % LimbBase, t4 % LimbBase>>,
         carry |-> t1 \div LimbBase]

\* v divided by 10: quotient and remainder
U64DivMod10(v) ==
    LET q1 == v[1] \div 10
        r1 == v[1] % 10
        q2 == (r1 * LimbBase + v[2]) \div 10
        r2 == (r1 * LimbBase + v[2]) % 10
        q3 == (r2 * LimbBase + v[3]) \div 10
        r3 == (r2 * LimbBase + v[3]) % 10
        q4 == (r3 * LimbBase + v[4]) \div 10
        r4 == (r3 * LimbBase + v[4]) % 10
    IN  [quot |-> <<q1, q2, q3, q4>>, rem |-> r4]

RECURSIVE U64ParseFrom(_, _, _)
U64ParseFrom(s, i, acc) ==
    IF i > Len(s) THEN [ok |-> TRUE, val |-> acc]
    ELSE IF ~IsDigit(s[i]) THEN [ok |-> FALSE, val |-> U64Zero]
    ELSE LET m == U64MulAdd10(acc, DigitVal(s[i]))
         IN  IF m.carry > 0 THEN [ok |-> FALSE, val |-> U64Zero]
             ELSE U64ParseFrom(s, i + 1, m.val)

\* u64::deserialize on a query-string value: str::parse::<u64>
U64Parse(s) ==
    LET body == IF Len(s) > 0 /\ s[1] = "+" THEN Tail(s) ELSE s
    IN  IF Len(body) = 0 THEN [ok |-> FALSE, val |-> U64Zero]
        ELSE U64ParseFrom(body, 1, U64Zero)

RECURSIVE U64DigitsOf(_)
U64DigitsOf(v) ==
    IF v = U64Zero THEN <<>>
    ELSE LET d == U64DivMod10(v)
         IN  Append(U64DigitsOf(d.quot), Digits[d.rem + 1])

\* u64::serialize: the decimal text of v
U64Format(v) == IF v = U64Zero THEN <<"0">> ELSE U64DigitsOf(v)

(***************************************************************************)
(* Amount codec: AmountWrapper over cln_rpc's Amount                       *)
(***************************************************************************)
\* the value kept in 32 bits
from_msat_u32(msat_) == [msat |-> <<0, 0, msat_[3], msat_[4]>>]

from_msat(msat_) == [msat |-> msat_]

msat(wrapper) == wrapper.msat

AmountWrapperDeserialize(s) ==
    LET m_sats == U64Parse(s)
    IN  IF m_sats.ok THEN [ok |-> TRUE, val |-> from_msat(m_sats.val)]
        ELSE [ok |-> FALSE, val |-> from_msat(U64Zero)]

AmountWrapperSerialize(wrapper) == U64Format(msat(wrapper))

AmountFromWrapper(wrapper) == [msat |-> wrapper.msat]

(***************************************************************************)
(* serde_json text                                                         *)
(***************************************************************************)
RECURSIVE JsonEscape(_)
JsonEscape(s) ==
    IF s = <<>> THEN <<>>
    ELSE (IF Head(s) = "\"" THEN <<"\\", "\"">>
          ELSE IF Head(s) = "\\" THEN <<"\\", "\\">>
          ELSE <<Head(s)>>) \o JsonEscape(Tail(s))

JsonString(s) == <<"\"">> \o JsonEscape(s) \o <<"\"">>

RECURSIVE JsonVecString(_, _)
JsonVecString(v, i) ==
    IF i > Len(v) THEN <<"]">>
    ELSE (IF i > 1 THEN <<",">> ELSE <<>>) \o JsonString(v[i]) \o JsonVecString(v, i + 1)

RECURSIVE JsonVecVecString(_, _)
JsonVecVecString(vv, i) ==
    IF i > Len(vv) THEN <<"]">>
    ELSE (IF i > 1 THEN <<",">> ELSE <<>>) \o <<"[">> \o JsonVecString(vv[i], 1)
             \o JsonVecVecString(vv, i + 1)

\* serde_json::to_string(&Vec<Vec<String>>)
SerdeJsonToString(vv) == <<"[">> \o JsonVecVecString(vv, 1)

TextPlain == <<"t", "e", "x", "t", "/", "p", "l", "a", "i", "n">>

(***************************************************************************)
(* nostr events: the JSON text is a token sequence                         *)
(***************************************************************************)
\* the event id: a hash over the signed fields
EventId(pubkey, content) == "H(" \o pubkey \o "," \o content \o ")"

\* the signature the holder of pubkey's secret makes over id
Sign(pubkey, id) == "S(" \o pubkey \o "," \o id \o ")"

StripSpace(d) == SelectSeq(d, LAMBDA t : t # " ")

\* Event::from_json
from_json(d) ==
    LET t == StripSpace(d)
    IN  IF /\ Len(t) = 10
           /\ t[1] = "{" /\ t[2] = "id" /\ t[4] = "pubkey"
           /\ t[6] = "content" /\ t[8] = "sig" /\ t[10] = "}"
        THEN [ok |-> TRUE,
              val |-> [id |-> t[3], pubkey |-> t[5], content |-> t[7], sig |-> t[9]]]
        ELSE [ok |-> FALSE,
              val |-> [id |-> "", pubkey |-> "", content |-> "", sig |-> ""]]

\* Event::verify: the id, then the signature
verify(event) ==
    IF event.id # EventId(event.pubkey, event.content) THEN "InvalidId"
    ELSE IF event.sig # Sign(event.pubkey, event.id) THEN "InvalidSignature"
    ELSE "Ok"

\* Event::as_json: the canonical text
as_json(event) ==
    <<"{", "id", event.id, "pubkey", event.pubkey,
      "content", event.content, "sig", event.sig, "}">>

(***************************************************************************)
(* Url::join                                                               *)
(***************************************************************************)
\* a URL is host and path segments; a trailing slash is a last segment ""
UrlJoin(base, segment) ==
    [host |-> base.host,
     path |-> SubSeq(base.path, 1, Len(base.path) - 1) \o <<segment>>]

UrlText(url) == <<url.host>> \o url.path

(***************************************************************************)
(* Configuration: ClnurlState                                              *)
(***************************************************************************)
None == <<>>

Some(v) == <<v>>

ClnurlStates ==
    { [rpc_socket |-> "lightning-rpc",
       api_base_address |-> [host |-> "http://localhost", path |-> <<"">>],
       description |-> <<"H", "i">>,
       nostr_pubkey |-> None],
      [rpc_socket |-> "lightning-rpc",
       api_base_address |-> [host |-> "https://example.com", path |-> <<"lnurl_api", "">>],
       description |-> <<"a", "\"", "\\">>,
       nostr_pubkey |-> Some(<<"9", "6", "3", "0">>)] }

(***************************************************************************)
(* GET /lnurl                                                              *)
(***************************************************************************)
MinSendableMsat == <<0, 0, 0, 1>>

\* 100000000000 = 23 * 2^32 + 18550 * 2^16 + 59392
MaxSendableMsat == <<0, 23, 18550, 59392>>

LnurlMetadata(st) == SerdeJsonToString(<< <<TextPlain, st.description>> >>)

\* get_lnurl_struct: the handler's return value
get_lnurl_struct_min0(st) ==
    [tag |-> "Ok",
     json |-> [min_sendable |-> from_msat(U64Zero),
               max_sendable |-> from_msat(MaxSendableMsat),
               metadata |-> LnurlMetadata(st),
               callback |-> UrlJoin(st.api_base_address, "invoice"),
               tag |-> "PayRequest",
               allows_nostr |-> st.nostr_pubkey # None,
               nostr_pubkey |-> st.nostr_pubkey]]

get_lnurl_struct(st) ==
    [tag |-> "Ok",
     json |-> [min_sendable |-> from_msat(MinSendableMsat),
               max_sendable |-> from_msat(MaxSendableMsat),
               metadata |-> LnurlMetadata(st),
               callback |-> UrlJoin(st.api_base_address, "invoice"),
               tag |-> "PayRequest",
               allows_nostr |-> st.nostr_pubkey # None,
               nostr_pubkey |-> st.nostr_pubkey]]

\* #[serde(rename_all = "camelCase")] on LnurlTag
LnurlTagSerialize(tag) == IF tag = "PayRequest" THEN JsonString(<<"payRequest">>) ELSE <<"null">>

JsonBool(b) == IF b THEN <<"true">> ELSE <<"false">>

\* an Option<String> field written whether or not it is set
JsonOptString(o) == IF o = None THEN <<"null">> ELSE JsonString(o[1])

\* the derived Serialize of LnurlResponse: the object's members in order
LnurlResponseSerialize_null(resp) ==
    << <<"minSendable", AmountWrapperSerialize(resp.min_sendable)>>,
       <<"maxSendable", AmountWrapperSerialize(resp.max_sendable)>>,
       <<"metadata", JsonString(resp.metadata)>>,
       <<"callback", JsonString(UrlText(resp.callback))>>,
       <<"tag", LnurlTagSerialize(resp.tag)>>,
       <<"allowsNostr", JsonBool(resp.allows_nostr)>>,
       <<"nostrPubkey", JsonOptString(resp.nostr_pubkey)>> >>

LnurlResponseSerialize(resp) ==
    << <<"minSendable", AmountWrapperSerialize(resp.min_sendable)>>,
       <<"maxSendable", AmountWrapperSerialize(resp.max_sendable)>>,
       <<"metadata", JsonString(resp.metadata)>>,
       <<"callback", JsonString(UrlText(resp.callback))>>,
       <<"tag", LnurlTagSerialize(resp.tag)>>,
       <<"allowsNostr", JsonBool(resp.allows_nostr)>> >>
    \o (IF resp.nostr_pubkey = None THEN <<>>
        ELSE << <<"nostrPubkey", JsonOptString(resp.nostr_pubkey)>> >>)

(***************************************************************************)
(* GET /invoice                                                            *)
(***************************************************************************)
\* the derived Serialize of GetInvoiceResponse
GetInvoiceResponseSerialize(resp) ==
    << <<"pr", JsonString(<<resp.pr>>)>>,
       <<"successAction", JsonOptString(resp.success_action)>>,
       <<"routes", <<"[", "]">> >> >>

InvoiceDefaultDescription_plane(st) ==
    SerdeJsonToString(<< <<SubSeq(TextPlain, 1, 9) \o <<"e">>, st.description>> >>)

\* the description of a request that carries no event
InvoiceDefaultDescription(st) == SerdeJsonToString(<< <<TextPlain, st.description>> >>)

\* the match on params.nostr: the description, or the line that fails
ResolveDescription_unverified(params, st) ==
    IF params.nostr # None
    THEN LET zap_request == from_json(params.nostr[1])
         IN  IF ~zap_request.ok THEN [ok |-> FALSE, val |-> <<>>]
             ELSE [ok |-> TRUE, val |-> as_json(zap_request.val)]
    ELSE [ok |-> TRUE, val |-> InvoiceDefaultDescription(st)]

ResolveDescription(params, st) ==
    IF params.nostr # None
    THEN LET zap_request == from_json(params.nostr[1])
         IN  IF ~zap_request.ok THEN [ok |-> FALSE, val |-> <<>>]
             ELSE IF verify(zap_request.val) # "Ok" THEN [ok |-> FALSE, val |-> <<>>]
             ELSE [ok |-> TRUE, val |-> as_json(zap_request.val)]
    ELSE [ok |-> TRUE, val |-> InvoiceDefaultDescription(st)]

U64Less(a, b) ==
    \E i \in 1..4 : a[i] < b[i] /\ \A j \in 1..(i - 1) : a[j] = b[j]

\* the request with the amount held to the advertised range
InvoiceRequest_clamped(params, description, label) ==
    [amount_msat |-> [kind |-> "Amount",
                      amount |-> IF U64Less(MaxSendableMsat, msat(params.amount))
                                 THEN [msat |-> MaxSendableMsat]
                                 ELSE AmountFromWrapper(params.amount)],
     description |-> description,
     label |-> label,
     expiry |-> None,
     fallbacks |-> None,
     preimage |-> None,
     exposeprivatechannels |-> None,
     cltv |-> None,
     deschashonly |-> Some(TRUE)]

\* cln_rpc::Request::Invoice(InvoiceRequest { .. })
InvoiceRequest(params, description, label) ==
    [amount_msat |-> [kind |-> "Amount", amount |-> AmountFromWrapper(params.amount)],
     description |-> description,
     label |-> label,
     expiry |-> None,
     fallbacks |-> None,
     preimage |-> None,
     exposeprivatechannels |-> None,
     cltv |-> None,
     deschashonly |-> Some(TRUE)]

\* the handler's Ok value
GetInvoiceOk(invoice) ==
    [tag |-> "Ok", json |-> [pr |-> invoice, success_action |-> None, routes |-> <<>>]]

StatusErr == [tag |-> "Err", status |-> 500]

\* axum's rejection of a query string that does not deserialize
QueryRejection == [tag |-> "Rejected", status |-> 400]

Panicked == [tag |-> "Panic"]

NoReturn == [tag |-> "None"]

\* IntoResponse for Result<Json<T>, StatusCode>
IntoResponse(result, route) ==
    CASE result.tag = "Ok" ->
             [sent |-> TRUE, status |-> 200,
              body |-> IF route = "/lnurl" THEN LnurlResponseSerialize(result.json)
                       ELSE GetInvoiceResponseSerialize(result.json)]
      [] result.tag \in {"Err", "Rejected"} ->
             [sent |-> TRUE, status |-> result.status, body |-> <<>>]
      [] OTHER -> [sent |-> FALSE, status |-> 0, body |-> <<>>]

(***************************************************************************)
(* What the callers and the node may send                                  *)
(***************************************************************************)
SignedEvent(pubkey, content) ==
    [id |-> EventId(pubkey, content), pubkey |-> pubkey, content |-> content,
     sig |-> Sign(pubkey, EventId(pubkey, content))]

\* the same event as its author wrote it, with spaces between the members
SpacedJson(event) ==
    <<"{", " ", "id", event.id, " ", "pubkey", event.pubkey, " ",
      "content", event.content, " ", "sig", event.sig, " ", "}">>

ValidZap == SpacedJson(SignedEvent("pkA", "zap"))

TamperedSigZap ==
    as_json([SignedEvent("pkA", "zap") EXCEPT !.sig = Sign("pkB", EventId("pkA", "zap"))])

TamperedContentZap == as_json([SignedEvent("pkA", "zap") EXCEPT !.content = "zap!"])

MalformedZap == <<"{", "id", EventId("pkA", "zap"), "pubkey">>

NostrInputs ==
    {None, Some(ValidZap), Some(TamperedSigZap), Some(TamperedContentZap), Some(MalformedZap)}

\* one more than the advertised maximum
AboveMaxSendableMsat == <<0, 23, 18550, 59393>>

ZapAmountMsat == <<0, 0, 0, 1000>>

AmountInputs == {U64Zero, ZapAmountMsat, AboveMaxSendableMsat}

BadAmountWires == { <<"1", "x">> }

\* the queries of GET /invoice: amount as the caller wrote it, nostr optional;
\* every amount without an event, every event with one amount
InvoiceQueries ==
    { q \in [route : {"/invoice"},
             amount : {U64Format(n) : n \in AmountInputs} \cup BadAmountWires,
             nostr : NostrInputs] :
        q.nostr = None \/ q.amount = U64Format(ZapAmountMsat) }

LnurlQuery == [route |-> "/lnurl", amount |-> <<>>, nostr |-> None]

NoQuery == [route |-> "", amount |-> <<>>, nostr |-> None]

\* Uuid::new_v4(): a fresh 128-bit value, unique to the call that draws it
NewV4(r) == <<"uuid", r>>

Bolt11s == {"lnbc1", "lnbc2"}

\* cln_rpc::Response as call() may hand it back; "Error" is call()'s Err
NodeResponses ==
    {[kind |-> "Invoice", bolt11 |-> b] : b \in Bolt11s}
    \cup {[kind |-> "Error", bolt11 |-> ""], [kind |-> "Getinfo", bolt11 |-> ""]}

(***************************************************************************)
(* State                                                                   *)
(***************************************************************************)
NoClient == [state |-> "none", request |-> None, response |-> None]

OpenClient == [state |-> "open", request |-> None, response |-> None]

Dropped == [state |-> "closed", request |-> None, response |-> None]

CodecIdle ==
    [stage |-> "idle", n |-> U64Zero, amount |-> [msat |-> U64Zero], wire |-> <<>>,
     out |-> U64Zero]

TransportExits == {"connect", "call"}

Init ==
    /\ state \in ClnurlStates
    /\ alive = TRUE
    /\ req = [r \in Requests |-> NoQuery]
    /\ pc = [r \in Requests |-> "idle"]
    /\ client = [r \in Requests |-> NoClient]
    /\ ret = [r \in Requests |-> NoReturn]
    /\ exit = [r \in Requests |-> "none"]
    /\ calls = [r \in Requests |-> 0]
    /\ codec = CodecIdle

\* Query(params): the query string deserialized into GetInvoiceParams
QueryParams(query) ==
    LET amount == AmountWrapperDeserialize(query.amount)
    IN  [ok |-> amount.ok, val |-> [amount |-> amount.val, nostr |-> query.nostr]]

\* the server accepts request r: requests are numbered as they arrive
Accept(r, query) ==
    /\ alive
    /\ pc[r] = "idle"
    /\ IF r = 1 THEN TRUE ELSE pc[r - 1] # "idle"
    /\ req' = [req EXCEPT ![r] = query]

\* handler r is over: its value goes back to axum and cln_client is dropped;
\* a panic unwinds the task, or aborts the process when built with panic=abort
Leave(r, result, line) ==
    /\ ret' = [ret EXCEPT ![r] = result]
    /\ exit' = [exit EXCEPT ![r] = line]
    /\ pc' = [pc EXCEPT ![r] = "done"]
    /\ client' = [client EXCEPT ![r] = Dropped]
    /\ IF result.tag = "Panic" THEN alive' \in BOOLEAN ELSE alive' = alive

\* what map_err makes of a failure to connect, and of a failed call
ConnectError_unwrap == Panicked

ConnectError == StatusErr

CallError == StatusErr

\* the response that call() on r's own cln_client hands back
ReceivedResponse_shared(r) == client[1].response

ReceivedResponse(r) == client[r].response

GetLnurlStruct(r) ==
    /\ Accept(r, LnurlQuery)
    /\ Leave(r, get_lnurl_struct(state), "lnurl")
    /\ UNCHANGED <<state, calls, codec>>

QueryReject(r, query) ==
    /\ Accept(r, query)
    /\ ~QueryParams(query).ok
    /\ Leave(r, QueryRejection, "query")
    /\ UNCHANGED <<state, calls, codec>>

ClnRpcNewErr(r, query) ==
    /\ Accept(r, query)
    /\ QueryParams(query).ok
    /\ Leave(r, ConnectError, "connect")
    /\ UNCHANGED <<state, calls, codec>>

ClnRpcNewOk(r, query) ==
    /\ Accept(r, query)
    /\ QueryParams(query).ok
    /\ pc' = [pc EXCEPT ![r] = "connected"]
    /\ client' = [client EXCEPT ![r] = OpenClient]
    /\ UNCHANGED <<state, alive, ret, exit, calls, codec>>

DescriptionErr(r) ==
    /\ alive
    /\ pc[r] = "connected"
    /\ ~ResolveDescription(QueryParams(req[r]).val, state).ok
    /\ Leave(r, StatusErr, "event")
    /\ UNCHANGED <<state, req, calls, codec>>

InvoiceCall(r) ==
    /\ alive
    /\ pc[r] = "connected"
    /\ LET params == QueryParams(req[r]).val
           description == ResolveDescription(params, state)
       IN  /\ description.ok
           /\ client' = [client EXCEPT ![r].request =
                             Some(InvoiceRequest(params, description.val, NewV4(r)))]
    /\ calls' = [calls EXCEPT ![r] = @ + 1]
    /\ pc' = [pc EXCEPT ![r] = "await"]
    /\ UNCHANGED <<state, alive, req, ret, exit, codec>>

\* the node reads the request on r's connection and answers on it
NodeReply(r, response) ==
    /\ alive
    /\ client[r].state = "open"
    /\ client[r].request # None
    /\ client[r].response = None
    /\ client' = [client EXCEPT ![r].response = Some(response)]
    /\ UNCHANGED <<state, alive, req, pc, ret, exit, calls, codec>>

CallTransportError(r) ==
    /\ alive
    /\ pc[r] = "await"
    /\ Leave(r, CallError, "call")
    /\ UNCHANGED <<state, req, calls, codec>>

CallRpcError(r) ==
    /\ alive
    /\ pc[r] = "await"
    /\ ReceivedResponse(r) # None
    /\ ReceivedResponse(r)[1].kind = "Error"
    /\ Leave(r, CallError, "rpc")
    /\ UNCHANGED <<state, req, calls, codec>>

CallInvoice(r) ==
    /\ alive
    /\ pc[r] = "await"
    /\ ReceivedResponse(r) # None
    /\ ReceivedResponse(r)[1].kind = "Invoice"
    /\ Leave(r, GetInvoiceOk(ReceivedResponse(r)[1].bolt11), "ok")
    /\ UNCHANGED <<state, req, calls, codec>>

CallWrongKind(r) ==
    /\ alive
    /\ pc[r] = "await"
    /\ ReceivedResponse(r) # None
    /\ ReceivedResponse(r)[1].kind \notin {"Invoice", "Error"}
    /\ Leave(r, Panicked, "kind")
    /\ UNCHANGED <<state, req, calls, codec>>

Next ==
    \E r \in Requests :
        \/ GetLnurlStruct(r)
        \/ \E query \in InvoiceQueries : QueryReject(r, query)
        \/ \E query \in InvoiceQueries : ClnRpcNewErr(r, query)
        \/ \E query \in InvoiceQueries : ClnRpcNewOk(r, query)
        \/ DescriptionErr(r)
        \/ InvoiceCall(r)
        \/ \E response \in NodeResponses : NodeReply(r, response)
        \/ CallTransportError(r)
        \/ CallRpcError(r)
        \/ CallInvoice(r)
        \/ CallWrongKind(r)

Spec == Init /\ [][Next]_vars

\* the response axum writes for request r
HttpResponse(r) == IntoResponse(ret[r], req[r].route)

(***************************************************************************)
(* The amount codec on its own: a value through from_msat, the wire text   *)
(* and back                                                                *)
(***************************************************************************)
Limbs == {0, 1, LimbBase - 1}

CodecInputs ==
    {<<a, b, c, d>> : a \in Limbs, b \in Limbs, c \in Limbs, d \in Limbs}
    \cup {ZapAmountMsat, MinSendableMsat, MaxSendableMsat, AboveMaxSendableMsat}

\* 2^64, one more than a u64 holds
OverflowWire ==
    <<"1", "8", "4", "4", "6", "7", "4", "4", "0", "7",
      "3", "7", "0", "9", "5", "5", "1", "6", "1", "6">>

CodecBadWires == BadAmountWires \cup {OverflowWire, <<>>, <<"-", "1">>}

InitCodec ==
    /\ state \in ClnurlStates
    /\ alive = TRUE
    /\ req = [r \in Requests |-> NoQuery]
    /\ pc = [r \in Requests |-> "idle"]
    /\ client = [r \in Requests |-> NoClient]
    /\ ret = [r \in Requests |-> NoReturn]
    /\ exit = [r \in Requests |-> "none"]
    /\ calls = [r \in Requests |-> 0]
    /\ \/ \E n \in CodecInputs : codec = [CodecIdle EXCEPT !.stage = "value", !.n = n]
       \/ \E w \in CodecBadWires : codec = [CodecIdle EXCEPT !.stage = "text", !.wire = w]

CodecFromMsat ==
    /\ codec.stage = "value"
    /\ codec' = [codec EXCEPT !.stage = "amount", !.amount = from_msat(codec.n)]
    /\ UNCHANGED <<state, alive, req, pc, client, ret, exit, calls>>

CodecMsat ==
    /\ codec.stage \in {"amount", "parsed"}
    /\ codec' = [codec EXCEPT !.stage = "out", !.out = msat(codec.amount)]
    /\ UNCHANGED <<state, alive, req, pc, client, ret, exit, calls>>

CodecSerialize ==
    /\ codec.stage = "amount"
    /\ codec' = [codec EXCEPT !.stage = "wire", !.wire = AmountWrapperSerialize(codec.amount)]
    /\ UNCHANGED <<state, alive, req, pc, client, ret, exit, calls>>

CodecDeserialize ==
    /\ codec.stage \in {"wire", "text"}
    /\ LET m == AmountWrapperDeserialize(codec.wire)
       IN  codec' = [codec EXCEPT !.stage = IF m.ok THEN "parsed" ELSE "refused",
                                  !.amount = m.val]
    /\ UNCHANGED <<state, alive, req, pc, client, ret, exit, calls>>

NextCodec ==
    \/ CodecFromMsat
    \/ CodecMsat
    \/ CodecSerialize
    \/ CodecDeserialize

SpecCodec == InitCodec /\ [][NextCodec]_vars

(***************************************************************************)
(* Properties                                                              *)
(***************************************************************************)
Answered(r) == pc[r] = "done"

InFlight(r) == client[r].request # None

Sent(r) == client[r].request[1]

Member(body, name) == {i \in 1..Len(body) : body[i][1] = name}

HasMember(body, name) == Member(body, name) # {}

MemberValue(body, name) == body[CHOOSE i \in Member(body, name) : TRUE][2]

EventVerifies(d) == from_json(d).ok /\ verify(from_json(d).val) = "Ok"

\* C1: a node answer of another kind than invoice ends the request with an
\* explicit handler error (status 500) and leaves the process running.
C1_WrongKindIsHandlerError ==
    /\ alive
    /\ \A r \in Requests :
          exit[r] = "kind" => HttpResponse(r).sent /\ HttpResponse(r).status = 500

\* C2: a transport error, on connecting or during the call, is answered with
\* status 500 for that request alone: the process keeps running and no other
\* request's handler, connection or result is touched; the process stops only
\* on a panic, never on an error that was returned.
C2_TransportErrorIsolated ==
    /\ [](\A r \in Requests :
             exit[r] \in TransportExits =>
                 /\ HttpResponse(r) = [sent |-> TRUE, status |-> 500, body |-> <<>>]
                 /\ alive \/ \E o \in Requests : ret[o].tag = "Panic")
    /\ [][\A r \in Requests :
             (exit[r] = "none" /\ exit'[r] \in TransportExits) =>
                 /\ alive' = alive
                 /\ \A o \in Requests \ {r} :
                        /\ pc'[o] = pc[o]
                        /\ client'[o] = client[o]
                        /\ ret'[o] = ret[o]]_vars

\* a request that arrived after a connection failure had been answered got
\* its invoice
C2_Witness ==
    \E r \in Requests : \E o \in Requests :
        /\ r < o
        /\ exit[r] = "connect"
        /\ exit[o] = "ok"
        /\ HttpResponse(o).status = 200
        /\ alive

\* C3: a request whose event does not parse or verify never has an invoice
\* request sent for it and is answered with a failure; a request carrying an
\* event has an invoice request sent only if the event parses and verifies.
C3_NoCallForBadEvent ==
    \A r \in Requests :
        req[r].nostr # None =>
            /\ (calls[r] > 0 \/ InFlight(r)) => EventVerifies(req[r].nostr[1])
            /\ (Answered(r) /\ ~EventVerifies(req[r].nostr[1])) =>
                   /\ calls[r] = 0
                   /\ ret[r].tag = "Err"

C3_Witness ==
    \E r \in Requests :
        /\ req[r].nostr = Some(TamperedSigZap)
        /\ exit[r] = "event"
        /\ calls[r] = 0
        /\ HttpResponse(r).status = 500

\* C4: the metadata of the descriptor equals the description of the invoice
\* request of a query without event; both are the JSON text of
\* [["text/plain", description]], and the request asks for deschashonly.
C4_MetadataBinding ==
    LET text == <<"[", "[">> \o JsonString(TextPlain) \o <<",">>
                    \o JsonString(state.description) \o <<"]", "]">>
    IN  /\ \A r \in Requests :
              exit[r] = "lnurl" => ret[r].json.metadata = text
        /\ \A r \in Requests :
              (InFlight(r) /\ req[r].nostr = None) =>
                  /\ Sent(r).description = text
                  /\ Sent(r).description = get_lnurl_struct(state).json.metadata
                  /\ Sent(r).deschashonly = Some(TRUE)
        /\ \A r \in Requests : InFlight(r) => Sent(r).deschashonly = Some(TRUE)

C4_Witness ==
    \E r \in Requests : \E o \in Requests :
        /\ exit[r] = "lnurl"
        /\ InFlight(o)
        /\ req[o].nostr = None
        /\ Sent(o).description = ret[r].json.metadata
        /\ state.description = <<"a", "\"", "\\">>

\* C5: a handler that gets an invoice response returns the bolt11 of the
\* response on its own connection, with no success action and no routes,
\* whatever the other requests in flight are doing.
C5_OwnInvoice ==
    [][\A r \in Requests :
          (pc[r] = "await" /\ pc'[r] = "done") =>
              /\ ret'[r].tag = "Ok" =>
                    /\ client[r].response # None
                    /\ client[r].response[1].kind = "Invoice"
                    /\ ret'[r].json = [pr |-> client[r].response[1].bolt11,
                                       success_action |-> None,
                                       routes |-> <<>>]
              /\ (/\ client[r].response # None
                  /\ client[r].response[1].kind = "Invoice"
                  /\ exit'[r] # "call") => ret'[r].tag = "Ok"]_vars

\* request 2 has its own invoice back while request 1, which arrived first,
\* still waits with another invoice on its connection
C5_Witness ==
    /\ exit[2] = "ok"
    /\ ret[2].json.pr = "lnbc2"
    /\ ret[2].json.success_action = None
    /\ ret[2].json.routes = <<>>
    /\ pc[1] = "await"
    /\ client[1].response = Some([kind |-> "Invoice", bolt11 |-> "lnbc1"])

\* C6: every descriptor handed out equals every other one, has minSendable 1,
\* maxSendable 100000000000, minSendable <= maxSendable and tag payRequest;
\* no step changes the configuration.
C6_DescriptorDeterminism ==
    /\ [](\A r \in Requests :
             exit[r] = "lnurl" =>
                 /\ \A o \in Requests : exit[o] = "lnurl" => ret[o] = ret[r]
                 /\ msat(ret[r].json.min_sendable) = <<0, 0, 0, 1>>
                 /\ MemberValue(HttpResponse(r).body, "minSendable") = <<"1">>
                 /\ MemberValue(HttpResponse(r).body, "maxSendable") =
                        <<"1", "0", "0", "0", "0", "0", "0", "0", "0", "0", "0", "0">>
                 /\ \/ U64Less(msat(ret[r].json.min_sendable), msat(ret[r].json.max_sendable))
                    \/ msat(ret[r].json.min_sendable) = msat(ret[r].json.max_sendable)
                 /\ MemberValue(HttpResponse(r).body, "tag") = <<"\"", "payRequest", "\"">>)
    /\ [][state' = state]_vars

\* a descriptor handed out after an invoice request was served
C6_Witness ==
    /\ exit[1] = "ok"
    /\ exit[2] = "lnurl"
    /\ HttpResponse(2).status = 200

\* C7: allowsNostr is true exactly when a key is configured; nostrPubkey is
\* present, with the configured key, exactly when allowsNostr is true; without
\* a key the member is left out of the object, not written as null.
C7_OptionalPubkey ==
    \A r \in Requests :
        exit[r] = "lnurl" =>
            LET d == ret[r].json
                body == HttpResponse(r).body
            IN  /\ d.allows_nostr = (state.nostr_pubkey # None)
                /\ (d.nostr_pubkey # None) = d.allows_nostr
                /\ d.nostr_pubkey = state.nostr_pubkey
                /\ MemberValue(body, "allowsNostr") = JsonBool(state.nostr_pubkey # None)
                /\ HasMember(body, "nostrPubkey") = (state.nostr_pubkey # None)
                /\ HasMember(body, "nostrPubkey") =>
                       MemberValue(body, "nostrPubkey") = JsonString(state.nostr_pubkey[1])

C7_Witness ==
    \E r \in Requests :
        /\ exit[r] = "lnurl"
        /\ state.nostr_pubkey = None
        /\ ~HasMember(HttpResponse(r).body, "nostrPubkey")
        /\ MemberValue(HttpResponse(r).body, "allowsNostr") = <<"false">>

\* C8: every invoice request the handler took ends in one outcome after at
\* most one invoice call: the invoice (200), or status 500 with an empty body.
C8_OneOutcome ==
    \A r \in Requests :
        /\ calls[r] <= 1
        /\ (Answered(r) /\ req[r].route = "/invoice" /\ exit[r] # "query") =>
               /\ HttpResponse(r).sent
               /\ \/ HttpResponse(r).status = 200 /\ ret[r].tag = "Ok"
                  \/ HttpResponse(r) = [sent |-> TRUE, status |-> 500, body |-> <<>>]

\* C9: a millisatoshi count put into an amount comes out unchanged, directly
\* and through the wire text.
C9_RoundTrip ==
    /\ codec.stage = "amount" => msat(codec.amount) = codec.n
    /\ codec.stage = "parsed" => msat(codec.amount) = codec.n
    /\ codec.stage = "out" => codec.out = codec.n
    /\ (codec.stage = "refused") => codec.wire \in CodecBadWires

\* 2^64 - 1 went through the wire text and came back
C9_Witness ==
    /\ codec.stage = "out"
    /\ codec.n = U64Max
    /\ Len(codec.wire) = 20
    /\ codec.out = U64Max

\* C10: the amount of every invoice request sent is exact and is the amount
\* of the query, also below minSendable and above maxSendable; no handler exit
\* depends on the amount.
C10_AmountForwarded ==
    \A r \in Requests :
        /\ InFlight(r) =>
              /\ Sent(r).amount_msat.kind = "Amount"
              /\ \A n \in AmountInputs :
                    req[r].amount = U64Format(n) => Sent(r).amount_msat.amount.msat = n
        /\ (Answered(r) /\ req[r].route = "/invoice" /\ calls[r] = 0) =>
              \/ exit[r] = "connect"
              \/ exit[r] = "query" /\ req[r].amount \in BadAmountWires
              \/ exit[r] = "event" /\ req[r].nostr # None

C10_Witness ==
    \E r \in Requests : \E o \in Requests :
        /\ InFlight(r) /\ Sent(r).amount_msat.amount.msat = U64Zero
        /\ InFlight(o) /\ Sent(o).amount_msat.amount.msat = AboveMaxSendableMsat

====
